---- MODULE Spec2Model ----
(***************************************************************************)
(* A model of enw (src/src/lib.rs): the .env assignment-line parser        *)
(* (strip_tail_comment, parse_env_line, parse_env_file) and the launcher   *)
(* pipeline of run (with_arg_matches, file reads, parsing, spawn, wait).   *)
(*                                                                         *)
(* A text (Rust &str / String) is a sequence of characters; a character is *)
(* a one-character string.  MB stands for a character whose UTF-8 encoding *)
(* takes two bytes, so that character indices and byte indices differ.     *)
(***************************************************************************)
EXTENDS Naturals, Integers, Sequences, FiniteSets, TLC

VARIABLES
    input,      \* SpecFn: the text handed to the function under test
    out,        \* SpecFn: what the function returned
    fpc,        \* SpecFn: which function has been applied ("start" before)
    matches,    \* Spec: what clap's parse_arguments returned (ArgMatches)
    fs,         \* Spec: the file system, path -> [kind, readable, text]
    pc,         \* Spec: the position of run
    opt,        \* Spec: the OptionsBuilder with_arg_matches built
    env_texts,  \* Spec: run's env_files, the texts of the files read
    env_vars,   \* Spec: run's env_vars, the resolved assignment sequence
    child,      \* Spec: the child process: [spawned, env, args, status]
    result      \* Spec: what run returned to its caller

vars == <<input, out, fpc, matches, fs, pc, opt, env_texts, env_vars, child, result>>

fnVars == <<input, out, fpc>>
runVars == <<matches, fs, pc, opt, env_texts, env_vars, child, result>>

(***************************************************************************)
(* Characters                                                              *)
(***************************************************************************)
DQ == "\""
SQ == "'"
BS == "\\"
HASH == "#"
EQ == "="
SP == " "
NL == "\n"
MB == "é"

\* The characters the bounded inputs are built from.
Alphabet == {"a", EQ, HASH, DQ, SQ, BS, SP, MB}

\* char::len_utf8: the bytes a character takes in a Rust string.
ByteLen(c) == IF c = MB THEN 2 ELSE 1

\* char::is_whitespace, as used by str::trim, among the characters used here.
Whitespace == {SP, NL}
IsWhitespace(c) == c \in Whitespace

\* Option::None, for an index not recorded and an exit status not yet known.
None == -1

(***************************************************************************)
(* Bounds                                                                  *)
(***************************************************************************)
MaxLen == 4
MaxV == 3
MaxLines == 2
MaxFiles == 2

(***************************************************************************)
(* Library functions of str                                                *)
(***************************************************************************)
RECURSIVE TrimStartBy(_, _)
TrimStartBy(s, set) ==
    IF s # <<>> /\ Head(s) \in set THEN TrimStartBy(Tail(s), set) ELSE s

RECURSIVE TrimEndBy(_, _)
TrimEndBy(s, set) ==
    IF s # <<>> /\ s[Len(s)] \in set
    THEN TrimEndBy(SubSeq(s, 1, Len(s) - 1), set)
    ELSE s

\* str::trim_matches(&[..]): every leading and every trailing character that
\* is in the set is removed.
trim_matches(s, set) == TrimEndBy(TrimStartBy(s, set), set)

\* str::trim: leading and trailing whitespace removed.
Trim(s) == trim_matches(s, Whitespace)

\* str::contains(char)
Contains(s, c) == \E i \in 1..Len(s) : s[i] = c

\* str::starts_with(char)
StartsWith(s, c) == s # <<>> /\ Head(s) = c

\* str::replace(from, to) for a two-character `from` and a one-character
\* `to`: non-overlapping matches, left to right.
RECURSIVE Replace2(_, _, _, _)
Replace2(s, c1, c2, to) ==
    IF Len(s) < 2 THEN s
    ELSE IF s[1] = c1 /\ s[2] = c2
         THEN <<to>> \o Replace2(SubSeq(s, 3, Len(s)), c1, c2, to)
         ELSE <<s[1]>> \o Replace2(Tail(s), c1, c2, to)

\* The index (1-based) of the first occurrence of c in s, 0 when absent.
RECURSIVE FindFrom(_, _, _)
FindFrom(s, c, i) ==
    IF i > Len(s) THEN 0
    ELSE IF s[i] = c THEN i
    ELSE FindFrom(s, c, i + 1)

\* str::splitn(2, '='): the text before the first '=' and the text after it,
\* or the whole text alone when there is no '='.
Splitn2(line) ==
    LET i == FindFrom(line, EQ, 1) IN
    IF i = 0 THEN <<line>>
    ELSE <<SubSeq(line, 1, i - 1), SubSeq(line, i + 1, Len(line))>>

\* str::lines: the pieces between line feeds; a final empty piece is dropped.
RECURSIVE SplitLines(_)
SplitLines(text) ==
    IF text = <<>> THEN <<>>
    ELSE LET i == FindFrom(text, NL, 1) IN
         IF i = 0 THEN <<text>>
         ELSE <<SubSeq(text, 1, i - 1)>> \o SplitLines(SubSeq(text, i + 1, Len(text)))

\* The number of bytes of the first k characters of s.
RECURSIVE ByteOffset(_, _)
ByteOffset(s, k) == IF k = 0 THEN 0 ELSE ByteOffset(s, k - 1) + ByteLen(s[k])

\* &value[0..n], a slice by BYTE index: the characters before byte n when n
\* is a character boundary of value; otherwise the slice panics.
SliceTo(value, n) ==
    LET ks == {k \in 0..Len(value) : ByteOffset(value, k) = n} IN
    IF ks = {} THEN [panic |-> TRUE, text |-> <<>>]
    ELSE [panic |-> FALSE, text |-> SubSeq(value, 1, CHOOSE k \in ks : TRUE)]

(***************************************************************************)
(* strip_tail_comment                                                      *)
(***************************************************************************)
\* The scan loop: i is the index chars().enumerate() gives (a CHARACTER
\* index, from 0), state is S::Start or S::Quote.  The value is octothorp_ix:
\* the index of the '#' the scan stopped at, or None.
RECURSIVE ScanOctothorp(_, _, _)
ScanOctothorp(value, i, state) ==
    IF i >= Len(value) THEN None
    ELSE LET c == value[i + 1] IN
         IF state = "Start"
         THEN IF c = DQ THEN ScanOctothorp(value, i + 1, "Quote")
              ELSE IF c = BS THEN ScanOctothorp(value, i + 2, "Start")
              ELSE IF c = HASH THEN i
              ELSE ScanOctothorp(value, i + 1, "Start")
         ELSE IF c = DQ THEN ScanOctothorp(value, i + 1, "Start")
              ELSE IF c = BS THEN ScanOctothorp(value, i + 2, "Quote")
              ELSE ScanOctothorp(value, i + 1, "Quote")

\* A variant of CutAtOctothorp that trims the value also when no '#' was found.
CutAtOctothorp_TrimAlways(value, octothorp_ix) ==
    IF octothorp_ix # None
    THEN LET cut == SliceTo(value, octothorp_ix) IN
         IF cut.panic THEN cut ELSE [panic |-> FALSE, text |-> Trim(cut.text)]
    ELSE [panic |-> FALSE, text |-> Trim(value)]

\* The tail of strip_tail_comment: the value cut at octothorp_ix, used as a
\* byte index, and trimmed on both sides; or the value as it is.
CutAtOctothorp(value, octothorp_ix) ==
    IF octothorp_ix # None
    THEN LET cut == SliceTo(value, octothorp_ix) IN
         IF cut.panic THEN cut ELSE [panic |-> FALSE, text |-> Trim(cut.text)]
    ELSE [panic |-> FALSE, text |-> value]

strip_tail_comment(value) ==
    CutAtOctothorp(value, ScanOctothorp(value, 0, "Start"))

(***************************************************************************)
(* parse_env_line                                                          *)
(***************************************************************************)
Ok(key, value) == [kind |-> "Ok", key |-> key, value |-> value, err |-> ""]
Err(msg) == [kind |-> "Err", key |-> <<>>, value |-> <<>>, err |-> msg]
Panic == [kind |-> "Panic", key |-> <<>>, value |-> <<>>, err |-> ""]

\* A variant of Dequote that trims whitespace once more after the quotes.
Dequote_TrimInside(stripped) ==
    Replace2(Replace2(Trim(trim_matches(stripped, {DQ, SQ})), BS, DQ, DQ), BS, SQ, SQ)

\* The value after the comment is stripped: quotes trimmed, then \" and \'
\* unescaped.
Dequote(stripped) ==
    Replace2(Replace2(trim_matches(stripped, {DQ, SQ}), BS, DQ, DQ), BS, SQ, SQ)

\* A variant of parse_env_line that takes an empty value for a missing one.
parse_env_line_EmptyIsMissing(line) ==
    LET parts == Splitn2(line) IN
    IF Len(parts) < 1 THEN Err("KEY missing")
    ELSE IF Len(parts) < 2 \/ Trim(parts[2]) = <<>> THEN Err("VALUE missing")
    ELSE LET key == Trim(parts[1])
             value == Trim(parts[2])
             stripped == strip_tail_comment(value)
         IN IF stripped.panic THEN Panic
            ELSE Ok(key, Dequote(stripped.text))

parse_env_line(line) ==
    LET parts == Splitn2(line) IN
    IF Len(parts) < 1 THEN Err("KEY missing")
    ELSE IF Len(parts) < 2 THEN Err("VALUE missing")
    ELSE LET key == Trim(parts[1])
             value == Trim(parts[2])
             stripped == strip_tail_comment(value)
         IN IF stripped.panic THEN Panic
            ELSE Ok(key, Dequote(stripped.text))

(***************************************************************************)
(* parse_env_file                                                          *)
(***************************************************************************)
\* The filter of parse_env_file, on a trimmed line.
IsCandidate(line) == Contains(line, EQ) /\ ~StartsWith(line, HASH)

RECURSIVE SelectCandidates(_)
SelectCandidates(lines) ==
    IF lines = <<>> THEN <<>>
    ELSE LET line == Trim(Head(lines)) IN
         (IF IsCandidate(line) THEN <<line>> ELSE <<>>)
             \o SelectCandidates(Tail(lines))

\* The Vec of results, one per candidate line in order; a panic of
\* parse_env_line unwinds through the whole call.
parse_env_file(text) ==
    LET cands == SelectCandidates(SplitLines(text))
        results == [i \in 1..Len(cands) |-> parse_env_line(cands[i])]
    IN IF \E i \in 1..Len(cands) : results[i].kind = "Panic"
       THEN [panic |-> TRUE, results |-> <<>>]
       ELSE [panic |-> FALSE, results |-> results]

(***************************************************************************)
(* The functions on their own: an input text is drawn, one function is     *)
(* applied to it.                                                          *)
(***************************************************************************)
\* Every text of at most n characters of the alphabet.
Texts(n) == UNION {[1..k -> Alphabet] : k \in 0..n}

\* The characters of a value "without embedded quotes or #".
PlainAlphabet == Alphabet \ {DQ, SQ, HASH}

KEY == <<"K", "E", "Y">>

\* V wrapped as the line KEY="V".
Wrap(v) == KEY \o <<EQ, DQ>> \o v \o <<DQ>>

PlainValues == UNION {[1..k -> PlainAlphabet] : k \in 0..MaxV}

QuotedLines == {Wrap(v) : v \in PlainValues}

\* Lines an .env file is made of: comments, blanks, assignments, a line
\* without '=', and an assignment whose comment follows a two-byte character.
SampleLines ==
    { <<>>,
      <<SP, SP>>,
      <<HASH, SP, "c">>,
      <<SP, HASH, "a", EQ, DQ, "b", DQ>>,
      <<"a">>,
      <<"a", EQ, "1">>,
      <<SP, "b", SP, EQ, SP, DQ, "2", DQ, SP, HASH, "c">>,
      <<"a", EQ, MB, HASH, "c">> }

RECURSIVE JoinLines(_)
JoinLines(lines) ==
    IF lines = <<>> THEN <<>> ELSE Head(lines) \o <<NL>> \o JoinLines(Tail(lines))

FileTexts ==
    {JoinLines(ls) : ls \in UNION {[1..k -> SampleLines] : k \in 0..MaxLines}}

Inputs == Texts(MaxLen) \cup QuotedLines \cup FileTexts

NoMatches == [ignore_env |-> FALSE, no_implicit_env_file |-> FALSE,
              env_file |-> <<>>, rest |-> <<>>]
NoOpt == [env_files |-> <<>>, vars |-> <<>>, command |-> <<>>, args |-> <<>>,
          ignore_env |-> FALSE, load_implicit_env_file |-> FALSE]
NoChild == [spawned |-> FALSE, env |-> <<>>, args |-> <<>>, status |-> None]
NoResult == [kind |-> "None", err |-> ""]

InitFn ==
    /\ input \in Inputs
    /\ out = <<>>
    /\ fpc = "start"
    /\ matches = NoMatches
    /\ fs = <<>>
    /\ pc = "idle"
    /\ opt = NoOpt
    /\ env_texts = <<>>
    /\ env_vars = <<>>
    /\ child = NoChild
    /\ result = NoResult

\* A value is part of one line: it holds no line feed.
StripTailComment ==
    /\ fpc = "start"
    /\ ~Contains(input, NL)
    /\ out' = strip_tail_comment(input)
    /\ fpc' = "strip_tail_comment"
    /\ UNCHANGED <<input, runVars>>

\* A line (of str::lines, or a command-line token here) holds no line feed.
ParseEnvLine ==
    /\ fpc = "start"
    /\ ~Contains(input, NL)
    /\ out' = parse_env_line(input)
    /\ fpc' = "parse_env_line"
    /\ UNCHANGED <<input, runVars>>

ParseEnvFile ==
    /\ fpc = "start"
    /\ out' = parse_env_file(input)
    /\ fpc' = "parse_env_file"
    /\ UNCHANGED <<input, runVars>>

NextFn == StripTailComment \/ ParseEnvLine \/ ParseEnvFile

SpecFn == InitFn /\ [][NextFn]_vars

(***************************************************************************)
(* run: the launcher pipeline                                              *)
(***************************************************************************)
\* DEFAULT_ENV_FILE_NAME
DEFAULT_ENV_FILE_NAME == ".env"

\* A path is the sequence of its components; PathBuf::join appends one.
PathJoin(path, name) == Append(path, name)

CWD == <<"cwd">>

File(text) == [kind |-> "file", readable |-> TRUE, text |-> text]
Unreadable == [kind |-> "file", readable |-> FALSE, text |-> <<>>]
Dir == [kind |-> "dir", readable |-> FALSE, text |-> <<>>]
Absent == [kind |-> "none", readable |-> FALSE, text |-> <<>>]

\* The paths a command line may name with -f.
ExplicitPaths == {<<"f1">>, <<"f2">>, <<"bad">>, <<"pan">>, <<"d">>, <<"nope">>}

\* A file system: f1 and f2 are .env files, bad cannot be read, pan holds a
\* line whose comment follows a two-byte character, d is a directory, nope
\* does not exist; the .env of the working directory and of d may be there.
Files(implicit, in_d) ==
    [p \in ExplicitPaths \cup {PathJoin(CWD, DEFAULT_ENV_FILE_NAME),
                               PathJoin(<<"d">>, DEFAULT_ENV_FILE_NAME)} |->
        CASE p = PathJoin(CWD, DEFAULT_ENV_FILE_NAME) ->
                 IF implicit
                 THEN File(<<"K", EQ, "0", NL, "I", EQ, "0", NL>>)
                 ELSE Absent
          [] p = <<"f1">> ->
                 File(<<HASH, SP, "c", NL, "K", EQ, "1", NL, NL,
                        SP, "J", SP, EQ, SP, DQ, "1", DQ, SP, HASH, "c", NL, "x", NL>>)
          [] p = <<"f2">> -> File(<<"K", EQ, "2">>)
          [] p = <<"bad">> -> Unreadable
          [] p = <<"pan">> -> File(<<"K", EQ, MB, HASH, "c", NL>>)
          [] p = <<"d">> -> Dir
          [] p = PathJoin(<<"d">>, DEFAULT_ENV_FILE_NAME) ->
                 IF in_d THEN File(<<"J", EQ, "2", NL>>) ELSE Absent
          [] OTHER -> Absent]

FileSystems ==
    { [cwd_ok |-> TRUE, files |-> Files(TRUE, TRUE)],
      [cwd_ok |-> TRUE, files |-> Files(FALSE, TRUE)],
      [cwd_ok |-> TRUE, files |-> Files(TRUE, FALSE)],
      [cwd_ok |-> FALSE, files |-> Files(FALSE, TRUE)] }

\* The environment run itself was started with.
EmptyEnv == [k \in {} |-> <<>>]
ParentEnv == [k \in {<<"K">>, <<"P">>} |-> <<"p">>]

\* The REST tokens of a command line.
Rests ==
    { <<>>,
      << <<"c">> >>,
      << <<"K", EQ, "4">>, <<"c">> >>,
      << <<"K", EQ, "4">>, <<"J", EQ, "5">>, <<"c">>, <<"x">> >>,
      << <<"J", EQ, "5">>, <<"K", EQ, "4">>, <<"K", EQ, DQ, "6", DQ>>, <<"c">> >>,
      << <<"K", EQ, "4">> >>,
      << <<"c">>, <<"K", EQ, "4">> >>,
      << <<"K", EQ, MB, HASH>>, <<"c">> >> }

FArgs == UNION {[1..k -> ExplicitPaths] : k \in 0..MaxFiles}

\* The exit statuses a child may end with.
ExitStatuses == {0, 1}

Init ==
    /\ input = <<>>
    /\ out = <<>>
    /\ fpc = "idle"
    /\ matches \in [ignore_env : BOOLEAN, no_implicit_env_file : BOOLEAN,
                    env_file : FArgs, rest : Rests]
    /\ fs \in FileSystems
    /\ pc = "start"
    /\ opt = NoOpt
    /\ env_texts = <<>>
    /\ env_vars = <<>>
    /\ child = NoChild
    /\ result = NoResult

\* Iterator::take_while
RECURSIVE TakeWhileHasEq(_)
TakeWhileHasEq(tokens) ==
    IF tokens # <<>> /\ Contains(Head(tokens), EQ)
    THEN <<Head(tokens)>> \o TakeWhileHasEq(Tail(tokens))
    ELSE <<>>

\* collect::<Result<Vec<_>, _>>() over results of parse_env_line: the first
\* Err, or the (key, value) pairs; a panic unwinds before anything is
\* collected.
CollectPairs(results) ==
    LET bad == {i \in 1..Len(results) : results[i].kind # "Ok"} IN
    IF \E i \in bad : results[i].kind = "Panic"
    THEN [kind |-> "Panic", err |-> "", pairs |-> <<>>]
    ELSE IF bad # {}
    THEN LET first == CHOOSE i \in bad : \A j \in bad : i <= j IN
         [kind |-> "Err", err |-> results[first].err, pairs |-> <<>>]
    ELSE [kind |-> "Ok", err |-> "",
          pairs |-> [i \in 1..Len(results) |->
                        [key |-> results[i].key, value |-> results[i].value]]]

\* OptionsBuilder::with_arg_matches
WithArgMatches ==
    /\ pc = "start"
    /\ LET load_implicit == ~matches.no_implicit_env_file
           env_files ==
               (IF load_implicit
                THEN <<PathJoin(CWD, DEFAULT_ENV_FILE_NAME)>> ELSE <<>>)
                   \o matches.env_file
           rest == matches.rest
           inline == TakeWhileHasEq(rest)
           parsed == CollectPairs([i \in 1..Len(inline) |-> parse_env_line(inline[i])])
       IN IF load_implicit /\ ~fs.cwd_ok
          THEN /\ pc' = "returned"
               /\ result' = [kind |-> "Err", err |-> "cwd error"]
               /\ opt' = opt
          ELSE IF parsed.kind = "Panic"
          THEN /\ pc' = "panicked"
               /\ UNCHANGED <<result, opt>>
          ELSE IF parsed.kind = "Err"
          THEN /\ pc' = "returned"
               /\ result' = [kind |-> "Err", err |-> parsed.err]
               /\ opt' = opt
          ELSE IF Len(rest) <= Len(parsed.pairs)
          THEN /\ pc' = "returned"
               /\ result' = [kind |-> "Err", err |-> "No COMMAND supplied"]
               /\ opt' = opt
          ELSE /\ pc' = "built"
               /\ result' = result
               /\ opt' = [env_files |-> env_files,
                          vars |-> parsed.pairs,
                          command |-> rest[Len(parsed.pairs) + 1],
                          args |-> SubSeq(rest, Len(parsed.pairs) + 2, Len(rest)),
                          ignore_env |-> matches.ignore_env,
                          load_implicit_env_file |-> load_implicit]
    /\ UNCHANGED <<fnVars, matches, fs, env_texts, env_vars, child>>

\* Path::exists, Path::is_dir, Path::is_file
Kind(files, p) == IF p \in DOMAIN files THEN files[p].kind ELSE "none"

\* The chain of run over opt_builder.env_files: the paths that exist, a
\* directory rewritten to its .env, the regular files among the outcome.
RECURSIVE SurvivingPaths(_, _)
SurvivingPaths(files, paths) ==
    IF paths = <<>> THEN <<>>
    ELSE LET p == Head(paths)
             q == IF Kind(files, p) = "dir" THEN PathJoin(p, DEFAULT_ENV_FILE_NAME) ELSE p
         IN (IF Kind(files, p) # "none" /\ Kind(files, q) = "file" THEN <<q>> ELSE <<>>)
                \o SurvivingPaths(files, Tail(paths))

\* A variant of CollectReads that drops the files it cannot read.
CollectReads_SkipUnreadable(files, paths) ==
    [kind |-> "Ok",
     texts |-> LET ok == SelectSeq(paths, LAMBDA p : files[p].readable)
               IN [i \in 1..Len(ok) |-> files[ok[i]].text]]

\* .map(fs::read_to_string).collect::<Result<_, _>>(): the texts, or the error
\* of the first file that cannot be read.
CollectReads(files, paths) ==
    IF \E i \in 1..Len(paths) : ~files[paths[i]].readable
    THEN [kind |-> "Err", texts |-> <<>>]
    ELSE [kind |-> "Ok", texts |-> [i \in 1..Len(paths) |-> files[paths[i]].text]]

\* run, the statement that builds env_files (lines 25-38).
ReadEnvFiles ==
    /\ pc = "built"
    /\ LET reads == CollectReads(fs.files, SurvivingPaths(fs.files, opt.env_files)) IN
       IF reads.kind = "Err"
       THEN /\ pc' = "returned"
            /\ result' = [kind |-> "Err", err |-> "read error"]
            /\ env_texts' = env_texts
       ELSE /\ pc' = "read"
            /\ result' = result
            /\ env_texts' = reads.texts
    /\ UNCHANGED <<fnVars, matches, fs, opt, env_vars, child>>

\* flat_map(parse_env_file) over the texts: the results of all files in order.
RECURSIVE FlatMapParse(_)
FlatMapParse(texts) ==
    IF texts = <<>> THEN [panic |-> FALSE, results |-> <<>>]
    ELSE LET first == parse_env_file(Head(texts))
             others == FlatMapParse(Tail(texts))
         IN IF first.panic \/ others.panic
            THEN [panic |-> TRUE, results |-> <<>>]
            ELSE [panic |-> FALSE, results |-> first.results \o others.results]

\* A variant of ExtendVars that puts the command line's assignments first.
ExtendVars_InlineFirst(file_vars, inline_vars) == inline_vars \o file_vars

\* env_vars.extend(opt_builder.vars)
ExtendVars(file_vars, inline_vars) == file_vars \o inline_vars

\* run, the statements that build env_vars (lines 39-43).
ParseEnvFiles ==
    /\ pc = "read"
    /\ LET all == FlatMapParse(env_texts)
           parsed == CollectPairs(all.results)
       IN IF all.panic
          THEN /\ pc' = "panicked"
               /\ UNCHANGED <<result, env_vars>>
          ELSE IF parsed.kind = "Err"
          THEN /\ pc' = "returned"
               /\ result' = [kind |-> "Err", err |-> parsed.err]
               /\ env_vars' = env_vars
          ELSE /\ pc' = "resolved"
               /\ result' = result
               /\ env_vars' = ExtendVars(parsed.pairs, opt.vars)
    /\ UNCHANGED <<fnVars, matches, fs, opt, env_texts, child>>

\* Command::env: one insertion into the child's environment map.
EnvInsert(env, key, value) ==
    [k \in DOMAIN env \cup {key} |-> IF k = key THEN value ELSE env[k]]

\* Command::envs: the insertions in the order of the sequence.
RECURSIVE Envs(_, _)
Envs(env, pairs) ==
    IF pairs = <<>> THEN env
    ELSE Envs(EnvInsert(env, Head(pairs).key, Head(pairs).value), Tail(pairs))

\* run, from Command::new to cmd.spawn()? (lines 45-50): the child starts
\* with the assembled environment, or the spawn fails.
Spawn ==
    /\ pc = "resolved"
    /\ \E spawn_ok \in BOOLEAN :
          IF spawn_ok
          THEN /\ pc' = "spawned"
               /\ child' = [spawned |-> TRUE,
                            env |-> Envs(IF opt.ignore_env THEN EmptyEnv ELSE ParentEnv,
                                         env_vars),
                            args |-> opt.args,
                            status |-> None]
               /\ result' = result
          ELSE /\ pc' = "returned"
               /\ child' = child
               /\ result' = [kind |-> "Err", err |-> "spawn error"]
    /\ UNCHANGED <<fnVars, matches, fs, opt, env_texts, env_vars>>

\* run, child.wait()? and Ok(()) (lines 51-52): the child ends with some
\* exit status and run returns, or the wait itself fails.
Wait ==
    /\ pc = "spawned"
    /\ \/ \E status \in ExitStatuses :
             /\ child' = [child EXCEPT !.status = status]
             /\ result' = [kind |-> "Ok", err |-> ""]
       \/ /\ child' = child
          /\ result' = [kind |-> "Err", err |-> "wait error"]
    /\ pc' = "returned"
    /\ UNCHANGED <<fnVars, matches, fs, opt, env_texts, env_vars>>

Next == WithArgMatches \/ ReadEnvFiles \/ ParseEnvFiles \/ Spawn \/ Wait

Spec == Init /\ [][Next]_vars

(***************************************************************************)
(* The specification's reading of the comment stripper, used to state the  *)
(* claims: the two-state scan (with the one-character skip after '\'),     *)
(* position by position.                                                   *)
(***************************************************************************)
NextMode(m, c) ==
    CASE m = "PlainSkip" -> "Plain"
      [] m = "QuoteSkip" -> "InQuote"
      [] m = "Plain" -> IF c = DQ THEN "InQuote" ELSE IF c = BS THEN "PlainSkip" ELSE "Plain"
      [] m = "InQuote" -> IF c = DQ THEN "Plain" ELSE IF c = BS THEN "QuoteSkip" ELSE "InQuote"

\* The position (from 1) of the first '#' read in Plain state, 0 when none.
RECURSIVE RefBoundary(_, _, _)
RefBoundary(v, i, m) ==
    IF i > Len(v) THEN 0
    ELSE IF m = "Plain" /\ v[i] = HASH THEN i
    ELSE RefBoundary(v, i + 1, NextMode(m, v[i]))

\* The result the specification gives: the text before the boundary with
\* trailing whitespace trimmed, or the input unchanged.
RefStrip(v) ==
    LET b == RefBoundary(v, 1, "Plain") IN
    IF b = 0 THEN v ELSE TrimEndBy(SubSeq(v, 1, b - 1), Whitespace)

\* Some '#' of v, from position i on, is outside an active quote.
RECURSIVE HashOutsideQuote(_, _, _)
HashOutsideQuote(v, i, m) ==
    IF i > Len(v) THEN FALSE
    ELSE \/ v[i] = HASH /\ m \in {"Plain", "PlainSkip"}
         \/ HashOutsideQuote(v, i + 1, NextMode(m, v[i]))

NoHashOutsideQuote(v) == ~HashOutsideQuote(v, 1, "Plain")

\* C9: strip_comment never fails: for every input text it returns a value,
\* and the boundary index it recorded is a valid position to cut the input at.
C9_StripNeverFails ==
    fpc = "strip_tail_comment" => ~out.panic

\* C8: on the values parse_line hands it (trimmed ones), strip_comment
\* returns what the two-state scan of the specification gives: the text
\* before the first '#' read in Plain state with trailing whitespace trimmed,
\* or the input unchanged when there is no such '#'.
C8_StripIsTwoStateScan ==
    (fpc = "strip_tail_comment" /\ input = Trim(input))
        => (~out.panic /\ out.text = RefStrip(input))

\* C10 as stated: for every value with no '#' outside an active quote,
\* strip_comment(v) equals trim(v).
C10_Original_StripEqualsTrim ==
    (fpc = "strip_tail_comment" /\ NoHashOutsideQuote(input))
        => (~out.panic /\ out.text = Trim(input))

\* C10 as amended: for every value with no '#' outside an active quote,
\* strip_comment(v) is v itself, leading and trailing whitespace kept.
C10_StripLeavesValueUnchanged ==
    (fpc = "strip_tail_comment" /\ NoHashOutsideQuote(input))
        => (~out.panic /\ out.text = input)

\* A value with leading whitespace whose only '#' is inside a quote has been
\* stripped.
C10_Witness ==
    /\ fpc = "strip_tail_comment"
    /\ input = <<SP, DQ, HASH, DQ>>
    /\ NoHashOutsideQuote(input)
    /\ out.text = input

(***************************************************************************)
(* Claims about parse_env_line and parse_env_file                          *)
(***************************************************************************)
\* The text before the first '=' of a line that has one.
BeforeEq(line) == SubSeq(line, 1, FindFrom(line, EQ, 1) - 1)

\* The '=' of the line is followed by no text or by whitespace only.
NothingAfterEq(line) ==
    \E i \in 1..Len(line) :
        /\ line[i] = EQ
        /\ \A j \in 1..(i - 1) : line[j] # EQ
        /\ \A j \in (i + 1)..Len(line) : IsWhitespace(line[j])

\* C6: for every value V without '"', "'" or '#', parsing the line KEY="V"
\* succeeds with key KEY and value exactly V.
C6_RoundTrip ==
    fpc = "parse_env_line" =>
        \A v \in PlainValues : input = Wrap(v) => out = Ok(KEY, v)

\* A value with leading whitespace, an '=' and a trailing backslash has been
\* wrapped, parsed and returned as it was.
C6_Witness ==
    /\ fpc = "parse_env_line"
    /\ input = Wrap(<<SP, EQ, BS>>)
    /\ out.kind = "Ok"
    /\ out.value = <<SP, EQ, BS>>

RefDequote(s) ==
    IF Len(s) >= 2 /\ s[1] \in {DQ, SQ} /\ s[Len(s)] = s[1]
    THEN SubSeq(s, 2, Len(s) - 1)
    ELSE s

\* The value after a quote layer was (or was not) removed, unescaped.
Unescape(s) == Replace2(Replace2(s, BS, DQ, DQ), BS, SQ, SQ)

\* C1: parse_line removes exactly one outer layer of quotes, and only when
\* the comment-stripped, trimmed value begins and ends with the same quote
\* character; inner layers, mismatched quotes and one-sided quotes stay.
C1_OneQuoteLayer ==
    (fpc = "parse_env_line" /\ out.kind = "Ok") =>
        out.value = Unescape(RefDequote(
            strip_tail_comment(Trim(SubSeq(input, FindFrom(input, EQ, 1) + 1, Len(input)))).text))

\* The candidate lines of a file text as the specification defines them.
RefIsCandidate(line) == Contains(Trim(line), EQ) /\ ~StartsWith(Trim(line), HASH)
RefCandidates(text) == SelectSeq(SplitLines(text), RefIsCandidate)

\* C7: the extractor yields, in file order, exactly one assignment per line
\* that after trimming contains '=' and does not start with '#', and nothing
\* (no assignment, no failure) for every other line.
C7_OneAssignmentPerCandidate ==
    fpc = "parse_env_file" =>
        /\ ~out.panic
        /\ Len(out.results) = Len(RefCandidates(input))
        /\ \A k \in 1..Len(out.results) :
              /\ out.results[k].kind = "Ok"
              /\ out.results[k].key = Trim(BeforeEq(RefCandidates(input)[k]))

(***************************************************************************)
(* Claims about run                                                        *)
(***************************************************************************)
\* The assignments the specification takes from one candidate path: those of
\* the file itself, or of its .env when the path is a directory; none when
\* that is no regular file.
RefPathOf(p) ==
    IF Kind(fs.files, p) = "dir" THEN PathJoin(p, DEFAULT_ENV_FILE_NAME) ELSE p

RefSurvives(p) == Kind(fs.files, RefPathOf(p)) = "file"

RefAssignments(p) ==
    IF RefSurvives(p)
    THEN LET rs == parse_env_file(fs.files[RefPathOf(p)].text).results
         IN [i \in 1..Len(rs) |-> [key |-> rs[i].key, value |-> rs[i].value]]
    ELSE <<>>

\* The candidate paths in the order of the specification: the implicit one
\* (when enabled), then the explicit ones as given.
RefCandidatePaths ==
    (IF matches.no_implicit_env_file
     THEN <<>> ELSE <<PathJoin(CWD, DEFAULT_ENV_FILE_NAME)>>) \o matches.env_file

\* The inline tokens: those before the first token without '='.
RefInlineCount ==
    IF \E i \in 1..Len(matches.rest) : ~Contains(matches.rest[i], EQ)
    THEN (CHOOSE i \in 1..Len(matches.rest) :
              /\ ~Contains(matches.rest[i], EQ)
              /\ \A j \in 1..(i - 1) : Contains(matches.rest[j], EQ)) - 1
    ELSE Len(matches.rest)

RefInline ==
    [i \in 1..RefInlineCount |->
        LET r == parse_env_line(matches.rest[i]) IN [key |-> r.key, value |-> r.value]]

RECURSIVE RefConcat(_)
RefConcat(paths) ==
    IF paths = <<>> THEN <<>>
    ELSE RefAssignments(Head(paths)) \o RefConcat(Tail(paths))

\* The resolved environment of the specification.
RefResolved == RefConcat(RefCandidatePaths) \o RefInline

\* The value of the last entry for key k, <<>> standing for "no entry".
RefLast(pairs, k) ==
    LET at == {i \in 1..Len(pairs) : pairs[i].key = k} IN
    IF at = {} THEN <<>>
    ELSE <<pairs[CHOOSE i \in at : \A j \in at : j <= i].value>>

RefKeys == {<<"K">>, <<"J">>, <<"I">>, <<"P">>, <<"x">>}

RefBase == IF matches.ignore_env THEN EmptyEnv ELSE ParentEnv

\* C4: the resolved environment is the implicit file's assignments, then each
\* explicit file's in command-line order, then the inline ones; the child
\* sees, for every key, the value of the last entry for that key (and the
\* inherited value when there is no entry).
C4_LastWriteWins ==
    /\ pc \in {"resolved", "spawned"} => env_vars = RefResolved
    /\ child.spawned =>
          \A k \in RefKeys :
              IF RefLast(RefResolved, k) # <<>>
              THEN k \in DOMAIN child.env /\ child.env[k] = RefLast(RefResolved, k)[1]
              ELSE IF k \in DOMAIN RefBase
              THEN k \in DOMAIN child.env /\ child.env[k] = RefBase[k]
              ELSE k \notin DOMAIN child.env

\* A child runs whose K was set by the implicit file, by f1, by f2 after it
\* and by an inline assignment, and which sees the inline value.
C4_Witness ==
    /\ child.spawned
    /\ ~matches.no_implicit_env_file
    /\ fs.files[PathJoin(CWD, DEFAULT_ENV_FILE_NAME)].kind = "file"
    /\ matches.env_file = << <<"f1">>, <<"f2">> >>
    /\ matches.rest = << <<"K", EQ, "4">>, <<"J", EQ, "5">>, <<"c">>, <<"x">> >>
    /\ child.env[<<"K">>] = <<"4">>
    /\ child.env[<<"I">>] = <<"0">>

\* C5: the spawn step is reached only after the command token was found,
\* every inline assignment parsed, every surviving candidate file read and
\* every candidate line parsed; a run that ended with one of these failures
\* (or was unwound by a panic) has spawned nothing.
C5_NoSpawnFromPartialEnvironment ==
    /\ (pc = "spawned" \/ child.spawned) =>
          /\ RefInlineCount < Len(matches.rest)
          /\ \A i \in 1..RefInlineCount : parse_env_line(matches.rest[i]).kind = "Ok"
          /\ \A i \in 1..Len(RefCandidatePaths) :
                RefSurvives(RefCandidatePaths[i]) =>
                    LET f == fs.files[RefPathOf(RefCandidatePaths[i])] IN
                    /\ f.readable
                    /\ ~parse_env_file(f.text).panic
                    /\ \A j \in 1..Len(parse_env_file(f.text).results) :
                          parse_env_file(f.text).results[j].kind = "Ok"
          /\ env_vars = RefResolved
    /\ (result.kind = "Err" /\ result.err \notin {"spawn error", "wait error"}) =>
          /\ ~child.spawned
          /\ pc = "returned"
          /\ result.err = "No COMMAND supplied" => RefInlineCount >= Len(matches.rest)
          /\ result.err = "read error" =>
                \E i \in 1..Len(RefCandidatePaths) :
                    /\ RefSurvives(RefCandidatePaths[i])
                    /\ ~fs.files[RefPathOf(RefCandidatePaths[i])].readable
    /\ (pc = "returned" /\ ~child.spawned) => result.kind = "Err"
    /\ pc = "panicked" => ~child.spawned

\* A child was spawned by a run with two explicit files and two inline
\* assignments, all read and parsed.
C5_Witness ==
    /\ pc = "spawned"
    /\ child.spawned
    /\ matches.env_file = << <<"d">>, <<"f1">> >>
    /\ RefInlineCount = 2

\* C3: once the child is spawned, what run reports to its caller mirrors the
\* child's termination status: a non-success status is never reported as
\* success.
C3_ExitStatusMirrored ==
    (pc = "returned" /\ child.spawned /\ child.status \notin {None, 0})
        => result.kind # "Ok"

====
